---- MODULE Spec2Model ----
(***************************************************************************)
(* sri-check: one run of the command line tool (cli) and of the library    *)
(* entry point SRICheck.run.  Strings are sequences of one-character       *)
(* strings, so that urlparse, the '^//' test and the whitelist lookup are  *)
(* computed character by character as the code computes them.  A parsed    *)
(* document is the sequence of its tags in document order; a tag is a      *)
(* record [name, attrs] whose attrs is a function from the attribute names *)
(* it carries to their values, like Tag.attrs.                             *)
(***************************************************************************)
EXTENDS Integers, Sequences, FiniteSets, TLC

VARIABLES
  pc,                    \* position of the run
  args,                  \* parsed command line: url, all, generate, ignore
  whitelisted_hosts,     \* SRICheck.whitelisted_hosts
  html,                  \* the document as fetched (never changed afterwards)
  soup,                  \* the parsed document, whose tags the code mutates
  remote_resource_tags,  \* result of get_remote_resource_tags: <<[tag, attr]>>
  idx,                   \* position of the emit loop in remote_resource_tags
  output,                \* what has been printed, in order
  fetched                \* every network fetch made, in order

vars == <<pc, args, whitelisted_hosts, html, soup, remote_resource_tags,
          idx, output, fetched>>

\* ---------------------------------------------------------------- bounds
\* most tags in a fetched document
MaxTags == 2

\* ------------------------------------------------------ string constants
\* "fonts.googleapis.com"
FontsHost ==
  <<"f", "o", "n", "t", "s", ".", "g", "o", "o", "g", "l", "e", "a", "p", "i", "s", ".", "c", "o", "m">>
\* "js.hs-scripts.com"
HsScriptsHost ==
  <<"j", "s", ".", "h", "s", "-", "s", "c", "r", "i", "p", "t", "s", ".", "c", "o", "m">>
\* "foo.cdn.com"
FooHost ==
  <<"f", "o", "o", ".", "c", "d", "n", ".", "c", "o", "m">>
\* "https://site.test/"
UrlHttpsSite ==
  <<"h", "t", "t", "p", "s", ":", "/", "/", "s", "i", "t", "e", ".", "t", "e", "s", "t", "/">>
\* "http://site.test/p"
UrlHttpSite ==
  <<"h", "t", "t", "p", ":", "/", "/", "s", "i", "t", "e", ".", "t", "e", "s", "t", "/", "p">>
\* "//cdn.io/a.js"
RelCdn ==
  <<"/", "/", "c", "d", "n", ".", "i", "o", "/", "a", ".", "j", "s">>
\* "https://cdn.io/a.js"
HttpsCdn ==
  <<"h", "t", "t", "p", "s", ":", "/", "/", "c", "d", "n", ".", "i", "o", "/", "a", ".", "j", "s">>
\* "https://site.test/a"
HttpsOwn ==
  <<"h", "t", "t", "p", "s", ":", "/", "/", "s", "i", "t", "e", ".", "t", "e", "s", "t", "/", "a">>
\* "//site.test/b"
RelOwn ==
  <<"/", "/", "s", "i", "t", "e", ".", "t", "e", "s", "t", "/", "b">>
\* "/a.js"
PathOnly ==
  <<"/", "a", ".", "j", "s">>
\* "HTTPS://foo.cdn.com/a"
UpperFoo ==
  <<"H", "T", "T", "P", "S", ":", "/", "/", "f", "o", "o", ".", "c", "d", "n", ".", "c", "o", "m", "/", "a">>
\* "http://fonts.googleapis.com/c?f"
HttpFonts ==
  <<"h", "t", "t", "p", ":", "/", "/", "f", "o", "n", "t", "s", ".", "g", "o", "o", "g", "l", "e", "a", "p", "i", "s", ".", "c", "o", "m", "/", "c", "?", "f">>
\* "ftp://cdn.io/a"
FtpCdn ==
  <<"f", "t", "p", ":", "/", "/", "c", "d", "n", ".", "i", "o", "/", "a">>
\* "sha384-old"
OldIntegrity ==
  <<"s", "h", "a", "3", "8", "4", "-", "o", "l", "d">>
\* "use-credentials"
UseCredentials ==
  <<"u", "s", "e", "-", "c", "r", "e", "d", "e", "n", "t", "i", "a", "l", "s">>
\* "anonymous"
Anonymous ==
  <<"a", "n", "o", "n", "y", "m", "o", "u", "s">>
\* "sha384-"
Sha384Prefix ==
  <<"s", "h", "a", "3", "8", "4", "-">>
\* "http"
Http ==
  <<"h", "t", "t", "p">>
\* "https"
Https ==
  <<"h", "t", "t", "p", "s">>
\* "[*] No resource tags found without integrity attribute"
NoticeText ==
  <<"[", "*", "]", " ", "N", "o", " ", "r", "e", "s", "o", "u", "r", "c", "e", " ", "t", "a", "g", "s", " ", "f", "o", "u", "n", "d", " ", "w", "i", "t", "h", "o", "u", "t", " ", "i", "n", "t", "e", "g", "r", "i", "t", "y", " ", "a", "t", "t", "r", "i", "b", "u", "t", "e">>

UpperChars ==
  <<"A", "B", "C", "D", "E", "F", "G", "H", "I", "J", "K", "L", "M", "N", "O", "P", "Q", "R", "S", "T", "U", "V", "W", "X", "Y", "Z">>
LowerChars ==
  <<"a", "b", "c", "d", "e", "f", "g", "h", "i", "j", "k", "l", "m", "n", "o", "p", "q", "r", "s", "t", "u", "v", "w", "x", "y", "z">>
DigitChars ==
  <<"0", "1", "2", "3", "4", "5", "6", "7", "8", "9">>

\* ------------------------------------------------------- string helpers
Range(s) == {s[k] : k \in 1..Len(s)}

\* str.lower() on one character
Lower(c) ==
  IF \E k \in 1..Len(UpperChars) : UpperChars[k] = c
  THEN LowerChars[CHOOSE k \in 1..Len(UpperChars) : UpperChars[k] = c]
  ELSE c

LowerStr(s) == [k \in 1..Len(s) |-> Lower(s[k])]

\* str.find(c, start) with 1-based positions; 0 when c does not occur
RECURSIVE Find(_, _, _)
Find(s, c, start) ==
  IF start > Len(s) THEN 0
  ELSE IF s[start] = c THEN start
  ELSE Find(s, c, start + 1)

\* urllib.parse.scheme_chars, str.isalpha on ASCII, and the characters urlsplit
\* strips from the left or deletes
AlphaChars == Range(UpperChars) \cup Range(LowerChars)
SchemeChars == AlphaChars \cup Range(DigitChars) \cup {"+", "-", "."}
StripChars == {" ", "\t", "\r", "\n"}
UnsafeChars == {"\t", "\r", "\n"}

RECURSIVE LStrip(_)
LStrip(s) ==
  IF Len(s) > 0 /\ s[1] \in StripChars THEN LStrip(Tail(s)) ELSE s

\* urllib.parse._splitnetloc(url, 2): 1-based position of the first of / ? #
\* at or after the third character, Len + 1 when there is none
NetlocEnd(u) ==
  LET hits == {Find(u, c, 3) : c \in {"/", "?", "#"}} \ {0}
  IN IF hits = {} THEN Len(u) + 1
     ELSE CHOOSE d \in hits : \A e \in hits : d <= e

\* urlparse(url): the scheme and netloc components, the two the program reads
urlparse(url) ==
  LET u0 == SelectSeq(LStrip(url), LAMBDA c : c \notin UnsafeChars)
      i == Find(u0, ":", 1)
      hasScheme == /\ i > 1
                   /\ u0[1] \in AlphaChars
                   /\ \A k \in 1..(i - 1) : u0[k] \in SchemeChars
      u1 == IF hasScheme THEN SubSeq(u0, i + 1, Len(u0)) ELSE u0
      hasNetloc == Len(u1) >= 2 /\ u1[1] = "/" /\ u1[2] = "/"
  IN [scheme |-> IF hasScheme THEN LowerStr(SubSeq(u0, 1, i - 1)) ELSE <<>>,
      netloc |-> IF hasNetloc THEN SubSeq(u1, 3, NetlocEnd(u1) - 1) ELSE <<>>]

\* ------------------------------------------------------------- inputs
\* command lines: the positional url, --all, --generate and the -i list
Urls == {UrlHttpsSite, UrlHttpSite}
IgnoreLists == {<<>>, <<FooHost>>}
ArgSpace == [url : Urls, all : BOOLEAN, generate : BOOLEAN, ignore : IgnoreLists]

\* whitelists a library caller may pass to SRICheck(...)
CdnHost == urlparse(HttpsCdn).netloc
LibWhitelists == {<<>>, <<CdnHost>>, <<FooHost, CdnHost>>}

\* response bodies the network may return for a resource
Bodies == {"b1", "b2"}

\* tags a fetched page may contain
SrcValues == {RelCdn, HttpsCdn, HttpsOwn, PathOnly, UpperFoo, FtpCdn}
HrefValues == {HttpFonts, RelOwn, HttpsCdn}
TagUniverse ==
  {[name |-> "script", attrs |-> ("src" :> v)] : v \in SrcValues}
  \cup {[name |-> "link", attrs |-> ("href" :> v)] : v \in HrefValues}
  \cup {[name |-> "script",
         attrs |-> ("src" :> v) @@ ("integrity" :> OldIntegrity)
                   @@ ("crossorigin" :> UseCredentials)] : v \in {RelCdn}}
  \cup {[name |-> "link",
         attrs |-> ("href" :> HttpsCdn) @@ ("integrity" :> <<>>)]}
  \cup {[name |-> "script", attrs |-> ("src" :> HttpsCdn) @@ ("href" :> HttpsOwn)],
        [name |-> "script", attrs |-> ("src" :> HttpsOwn) @@ ("href" :> RelCdn)]}
  \cup {[name |-> "img", attrs |-> ("src" :> HttpsCdn)]}

Docs == UNION {[1..n -> TagUniverse] : n \in 0..MaxTags}

\* ------------------------------------------------------ SRICheck methods
\* mutant: only the first whitelist entry is compared
is_whitelisted_first(hosts, netloc) == Len(hosts) >= 1 /\ hosts[1] = netloc

\* is_whitelisted: list.index(netloc) succeeds
is_whitelisted(hosts, netloc) == \E k \in 1..Len(hosts) : hosts[k] = netloc

\* soup.find_all([name], attrs={attr: True}) and, with noIntegrity,
\* attrs={attr: True, 'integrity': None}: positions in document order
find_all(doc, name, attr, noIntegrity) ==
  SelectSeq([k \in 1..Len(doc) |-> k],
            LAMBDA k : /\ doc[k].name = name
                       /\ attr \in DOMAIN doc[k].attrs
                       /\ (noIntegrity => "integrity" \notin DOMAIN doc[k].attrs))

\* mutant: the integrity filter is applied whatever the all flag says
resource_tags_filtered(doc, all) ==
  find_all(doc, "script", "src", TRUE) \o find_all(doc, "link", "href", TRUE)

\* resource_tags: the script tags, then the link tags
resource_tags(doc, all) ==
  find_all(doc, "script", "src", ~all) \o find_all(doc, "link", "href", ~all)

\* the loop over ['src', 'href']: the last attribute the tag carries wins
PotentialAttributes == <<"src", "href">>
RECURSIVE pick_attribute(_, _, _)
pick_attribute(tag, k, attribute) ==
  IF k > Len(PotentialAttributes) THEN attribute
  ELSE pick_attribute(tag, k + 1,
         IF PotentialAttributes[k] \in DOMAIN tag.attrs
         THEN PotentialAttributes[k] ELSE attribute)

\* re.search('^//', value)
is_protocol_relative(value) == Len(value) >= 2 /\ value[1] = "/" /\ value[2] = "/"

\* mutant: protocol-relative values always get 'https:'
resolve_https(value, source_url) ==
  IF is_protocol_relative(value) THEN Https \o <<":">> \o value ELSE value

\* mutant: values that are not protocol-relative are stored back lower-cased
resolve_lowercased(value, source_url) ==
  IF is_protocol_relative(value)
  THEN urlparse(source_url).scheme \o <<":">> \o value
  ELSE LowerStr(value)

\* the value the code stores back in resource_tag[attribute]
resolve(value, source_url) ==
  IF is_protocol_relative(value)
  THEN urlparse(source_url).scheme \o <<":">> \o value
  ELSE value

\* scheme in {'http', 'https'} and not whitelisted
is_remote(value, hosts) ==
  LET parsed_tag == urlparse(value)
  IN /\ parsed_tag.scheme \in {Http, Https}
     /\ ~is_whitelisted(hosts, parsed_tag.netloc)

\* the loop over resource_tags: rewrites protocol-relative values in place and
\* collects {'tag', 'attr'} for the remote ones; a tag is named by its position
RECURSIVE scan_tags(_, _, _, _, _, _)
scan_tags(doc, rts, k, acc, source_url, hosts) ==
  IF k > Len(rts) THEN [soup |-> doc, refs |-> acc]
  ELSE LET t == rts[k]
           attribute == pick_attribute(doc[t], 1, "")
           value == resolve(doc[t].attrs[attribute], source_url)
           doc2 == [doc EXCEPT ![t].attrs[attribute] = value]
       IN scan_tags(doc2, rts, k + 1,
                    IF is_remote(value, hosts)
                    THEN Append(acc, [tag |-> t, attr |-> attribute]) ELSE acc,
                    source_url, hosts)

get_remote_resource_tags(doc, source_url, hosts, all) ==
  scan_tags(doc, resource_tags(doc, all), 1, <<>>, source_url, hosts)

\* base64(sha384(body)): a digest is determined by the body and differs
\* between the bodies of the model
b64_sha384(body) == <<"#", body>>

\* mutant: integrity and crossorigin are set only where the tag has none
with_integrity_kept(tag, body) ==
  [tag EXCEPT !.attrs = tag.attrs
                        @@ ("integrity" :> (Sha384Prefix \o b64_sha384(body)))
                        @@ ("crossorigin" :> Anonymous)]

\* the tag generate_sha returns: integrity and crossorigin set or replaced
with_integrity(tag, body) ==
  [tag EXCEPT !.attrs = ("integrity" :> (Sha384Prefix \o b64_sha384(body)))
                        @@ ("crossorigin" :> Anonymous) @@ tag.attrs]

\* mutant: the page's own netloc is left out of the whitelist
cli_whitelist_no_own(a) == <<FontsHost, HsScriptsHost>> \o a.ignore

\* mutant: the -i hosts are not appended
cli_whitelist_no_ignore(a) == <<FontsHost, HsScriptsHost, urlparse(a.url).netloc>>

\* the whitelist cli builds
cli_whitelist(a) ==
  <<FontsHost, HsScriptsHost, urlparse(a.url).netloc>> \o a.ignore

\* ---------------------------------------------------------------- state
Init ==
  /\ pc = "cli"
  /\ args \in ArgSpace
  /\ whitelisted_hosts = <<>>
  /\ html = <<>>
  /\ soup = <<>>
  /\ remote_resource_tags = <<>>
  /\ idx = 1
  /\ output = <<>>
  /\ fetched = <<>>

\* library use: SRICheck(url, whitelisted_hosts=..., all=...) constructed, run()
\* about to be called
InitLib ==
  /\ pc = "get_html"
  /\ args \in [url : Urls, all : BOOLEAN, generate : {FALSE}, ignore : {<<>>}]
  /\ whitelisted_hosts \in LibWhitelists
  /\ html = <<>>
  /\ soup = <<>>
  /\ remote_resource_tags = <<>>
  /\ idx = 1
  /\ output = <<>>
  /\ fetched = <<>>

\* cli up to the construction of SRICheck
Cli ==
  /\ pc = "cli"
  /\ whitelisted_hosts' = cli_whitelist(args)
  /\ pc' = "get_html"
  /\ UNCHANGED <<args, html, soup, remote_resource_tags, idx, output, fetched>>

\* get_html returns the page
GetHtmlOk ==
  /\ pc = "get_html"
  /\ \E doc \in Docs :
       /\ html' = doc
       /\ soup' = doc
  /\ fetched' = Append(fetched, [url |-> args.url, ok |-> TRUE, body |-> "page"])
  /\ pc' = "parse"
  /\ UNCHANGED <<args, whitelisted_hosts, remote_resource_tags, idx, output>>

\* get_html raises: the run ends with the uncaught exception
GetHtmlFail ==
  /\ pc = "get_html"
  /\ fetched' = Append(fetched, [url |-> args.url, ok |-> FALSE, body |-> "none"])
  /\ pc' = "error"
  /\ UNCHANGED <<args, whitelisted_hosts, html, soup, remote_resource_tags, idx, output>>

GetRemoteResourceTags ==
  /\ pc = "parse"
  /\ LET r == get_remote_resource_tags(soup, args.url, whitelisted_hosts, args.all)
     IN /\ soup' = r.soup
        /\ remote_resource_tags' = r.refs
  /\ idx' = 1
  /\ pc' = "emit"
  /\ UNCHANGED <<args, whitelisted_hosts, html, output, fetched>>

\* mutant: the notice is an else of the for loop, printed when the loop ends
PrintNotice_after_loop ==
  /\ pc = "emit"
  /\ idx > Len(remote_resource_tags)
  /\ output' = Append(output, [kind |-> "notice", text |-> NoticeText])
  /\ pc' = "done"
  /\ UNCHANGED <<args, whitelisted_hosts, html, soup, remote_resource_tags, idx, fetched>>

\* print("[*] No resource tags found without integrity attribute")
PrintNotice ==
  /\ pc = "emit"
  /\ Len(remote_resource_tags) = 0
  /\ output' = Append(output, [kind |-> "notice", text |-> NoticeText])
  /\ pc' = "done"
  /\ UNCHANGED <<args, whitelisted_hosts, html, soup, remote_resource_tags, idx, fetched>>

\* print(remote_resource_tag['tag'])
PrintTag ==
  /\ pc = "emit"
  /\ idx <= Len(remote_resource_tags)
  /\ ~args.generate
  /\ output' = Append(output, [kind |-> "tag", ref |-> idx,
                               tag |-> soup[remote_resource_tags[idx].tag]])
  /\ idx' = idx + 1
  /\ UNCHANGED <<pc, args, whitelisted_hosts, html, soup, remote_resource_tags, fetched>>

\* print(generate_sha(remote_resource_tag)), the fetch succeeding
GenerateShaOk ==
  /\ pc = "emit"
  /\ idx <= Len(remote_resource_tags)
  /\ args.generate
  /\ LET ref == remote_resource_tags[idx]
         tag == soup[ref.tag]
     IN \E body \in Bodies :
          /\ fetched' = Append(fetched, [url |-> tag.attrs[ref.attr], ok |-> TRUE,
                                         body |-> body])
          /\ soup' = [soup EXCEPT ![ref.tag] = with_integrity(tag, body)]
          /\ output' = Append(output, [kind |-> "tag", ref |-> idx,
                                       tag |-> with_integrity(tag, body)])
  /\ idx' = idx + 1
  /\ UNCHANGED <<pc, args, whitelisted_hosts, html, remote_resource_tags>>

\* mutant: the exception is swallowed and the loop goes on to the next reference
GenerateShaFail_skip ==
  /\ pc = "emit"
  /\ idx <= Len(remote_resource_tags)
  /\ args.generate
  /\ LET ref == remote_resource_tags[idx]
     IN fetched' = Append(fetched, [url |-> soup[ref.tag].attrs[ref.attr],
                                    ok |-> FALSE, body |-> "none"])
  /\ idx' = idx + 1
  /\ UNCHANGED <<pc, args, whitelisted_hosts, html, soup, remote_resource_tags, output>>

\* requests.get in generate_sha raises: the run ends with the uncaught exception
GenerateShaFail ==
  /\ pc = "emit"
  /\ idx <= Len(remote_resource_tags)
  /\ args.generate
  /\ LET ref == remote_resource_tags[idx]
     IN fetched' = Append(fetched, [url |-> soup[ref.tag].attrs[ref.attr],
                                    ok |-> FALSE, body |-> "none"])
  /\ pc' = "error"
  /\ UNCHANGED <<args, whitelisted_hosts, html, soup, remote_resource_tags, idx, output>>

\* the loop over a non-empty list ends
Finish ==
  /\ pc = "emit"
  /\ Len(remote_resource_tags) > 0
  /\ idx > Len(remote_resource_tags)
  /\ pc' = "done"
  /\ UNCHANGED <<args, whitelisted_hosts, html, soup, remote_resource_tags, idx, output, fetched>>

Next ==
  \/ Cli
  \/ GetHtmlOk
  \/ GetHtmlFail
  \/ GetRemoteResourceTags
  \/ PrintNotice
  \/ PrintTag
  \/ GenerateShaOk
  \/ GenerateShaFail
  \/ Finish

Spec == Init /\ [][Next]_vars

\* SRICheck.run() called by a library user
NextLib ==
  \/ GetHtmlOk
  \/ GetHtmlFail
  \/ GetRemoteResourceTags

SpecLib == InitLib /\ [][NextLib]_vars

\* ------------------------------------------------------------ properties
\* "site.test", the host of both page URLs
SiteHost ==
  <<"s", "i", "t", "e", ".", "t", "e", "s", "t">>

\* the page was fetched and get_remote_resource_tags has returned
Extracted == Len(fetched) >= 1 /\ fetched[1].ok /\ pc # "parse"

\* scheme of the page URL, read off the command line
PageScheme == IF args.url = UrlHttpsSite THEN Https ELSE Http

\* what a value resolves to: protocol-relative values get the page scheme
Expected(v) ==
  IF Len(v) >= 2 /\ SubSeq(v, 1, 2) = <<"/", "/">>
  THEN PageScheme \o <<":">> \o v ELSE v

\* the attribute an element is selected by
SelectingAttr(tag) == IF tag.name = "script" THEN "src" ELSE "href"

\* positions of the elements the selection step picks from the fetched page
Selected ==
  {t \in 1..Len(html) :
     /\ html[t].name \in {"script", "link"}
     /\ SelectingAttr(html[t]) \in DOMAIN html[t].attrs
     /\ (~args.all => "integrity" \notin DOMAIN html[t].attrs)}

ReturnedTags(refs) == {refs[k].tag : k \in 1..Len(refs)}

\* the k-th reference's tag as fetched, and its resolved value now
RefHtml(k) == html[remote_resource_tags[k].tag]
RefValue(k) == soup[remote_resource_tags[k].tag].attrs[remote_resource_tags[k].attr]

PrintedTags == {k \in 1..Len(output) : output[k].kind = "tag"}
NoticePrinted == \E k \in 1..Len(output) : output[k].kind = "notice"

\* C1: every reference get_remote_resource_tags returns has a resolved value
\* whose scheme is http or https and whose netloc is not in the whitelist.
C1_RemoteOnly ==
  Extracted =>
    \A k \in 1..Len(remote_resource_tags) :
      /\ urlparse(RefValue(k)).scheme \in {Http, Https}
      /\ \A j \in 1..Len(whitelisted_hosts) :
           whitelisted_hosts[j] # urlparse(RefValue(k)).netloc

\* a protocol-relative tag was returned next to a non-empty whitelist
C1_Witness ==
  /\ Extracted
  /\ Len(whitelisted_hosts) > 0
  /\ \E k \in 1..Len(remote_resource_tags) :
       RefHtml(k).attrs[remote_resource_tags[k].attr] = RelOwn

\* the fetched page with the integrity attribute of tag t removed
WithoutIntegrity(doc, t) ==
  [doc EXCEPT ![t].attrs =
     [a \in (DOMAIN doc[t].attrs) \ {"integrity"} |-> doc[t].attrs[a]]]

\* C2: without --all no tag carrying integrity is returned; with --all such a
\* tag is returned exactly when the same tag without integrity would be.
C2_IntegrityFilter ==
  Extracted =>
    \A t \in 1..Len(html) :
      ("integrity" \in DOMAIN html[t].attrs) =>
        IF args.all
        THEN (t \in ReturnedTags(remote_resource_tags))
             <=> (t \in ReturnedTags(
                    get_remote_resource_tags(WithoutIntegrity(html, t), args.url,
                                             whitelisted_hosts, args.all).refs))
        ELSE t \notin ReturnedTags(remote_resource_tags)

\* --all is set and a tag carrying integrity was returned
C2_Witness ==
  /\ Extracted
  /\ args.all
  /\ \E k \in 1..Len(remote_resource_tags) : "integrity" \in DOMAIN RefHtml(k).attrs

\* C3: a tag whose resolved netloc is the page's own netloc is never printed.
C3_OwnHostNeverEmitted ==
  \A k \in PrintedTags :
    urlparse(output[k].tag.attrs[remote_resource_tags[output[k].ref].attr]).netloc
      # SiteHost

\* a run printed a tag although the page also holds a selected tag on its own host
C3_Witness ==
  /\ pc = "done"
  /\ PrintedTags # {}
  /\ \E t \in Selected :
       /\ DOMAIN html[t].attrs \cap {"src", "href"} = {SelectingAttr(html[t])}
       /\ urlparse(Expected(html[t].attrs[SelectingAttr(html[t])])).netloc = SiteHost
       /\ t \notin ReturnedTags(remote_resource_tags)

\* C4: a selected tag's value starting with '//' resolves to the page scheme,
\* ':' and the value; any other value resolves unchanged.
C4_ProtocolRelative ==
  Extracted =>
    \A t \in Selected :
      LET a == IF t \in ReturnedTags(remote_resource_tags)
               THEN remote_resource_tags[
                      CHOOSE k \in 1..Len(remote_resource_tags) :
                        remote_resource_tags[k].tag = t].attr
               ELSE pick_attribute(html[t], 1, "")
      IN soup[t].attrs[a] = Expected(html[t].attrs[a])

\* '//cdn.io/a.js' on the http page was returned as 'http://cdn.io/a.js'
C4_Witness ==
  /\ Extracted
  /\ args.url = UrlHttpSite
  /\ \E k \in 1..Len(remote_resource_tags) :
       /\ RefHtml(k).attrs[remote_resource_tags[k].attr] = RelCdn
       /\ RefValue(k) = Http \o <<":">> \o RelCdn

\* C5: the cli whitelist is the two built-in hosts, the page's netloc and the
\* -i hosts; a selected http(s) reference is excluded iff its netloc is one of them.
C5_Whitelist ==
  LET hosts == {FontsHost, HsScriptsHost, SiteHost} \cup Range(args.ignore)
  IN /\ pc # "cli" => Range(whitelisted_hosts) = hosts
     /\ Extracted =>
          \A t \in Selected :
            LET p == urlparse(soup[t].attrs[pick_attribute(html[t], 1, "")])
            IN p.scheme \in {Http, Https} =>
                 ((t \notin ReturnedTags(remote_resource_tags)) <=> (p.netloc \in hosts))

\* -i foo.cdn.com excluded a tag hosted there while a built-in host was excluded too
C5_Witness ==
  /\ Extracted
  /\ args.ignore = <<FooHost>>
  /\ \E t \in Selected : /\ urlparse(soup[t].attrs[SelectingAttr(html[t])]).netloc = FooHost
                         /\ t \notin ReturnedTags(remote_resource_tags)
  /\ \E t \in Selected : /\ urlparse(soup[t].attrs[SelectingAttr(html[t])]).netloc = FontsHost
                         /\ t \notin ReturnedTags(remote_resource_tags)

\* C6 as stated: in a run whose page fetch succeeded the notice is printed iff
\* the list is empty and is then the only output; otherwise exactly one tag is
\* printed per reference.
C6_Original ==
  (Extracted /\ pc \in {"done", "error"}) =>
    /\ NoticePrinted <=> (Len(remote_resource_tags) = 0)
    /\ NoticePrinted => Len(output) = 1
    /\ Len(remote_resource_tags) > 0 =>
         /\ Len(output) = Len(remote_resource_tags)
         /\ \A k \in 1..Len(output) : output[k].kind = "tag" /\ output[k].ref = k

\* C6 amended: the notice is printed iff the list is empty and is then the only
\* output; for a non-empty list the notice is never printed and the tags of the
\* references are printed once each in list order, all of them when the run
\* completes and those before the failing one when a hash fetch fails.
C6_Output ==
  Extracted =>
    /\ NoticePrinted => (Len(remote_resource_tags) = 0 /\ Len(output) = 1)
    /\ (pc = "done" /\ Len(remote_resource_tags) = 0) => NoticePrinted
    /\ Len(remote_resource_tags) > 0 =>
         /\ Len(output) = idx - 1
         /\ \A k \in 1..Len(output) : output[k].kind = "tag" /\ output[k].ref = k
         /\ pc = "done" => Len(output) = Len(remote_resource_tags)
         /\ pc = "error" => Len(output) < Len(remote_resource_tags)

\* a run with two references completed and printed both
C6_Witness ==
  /\ pc = "done"
  /\ Len(remote_resource_tags) = 2
  /\ Len(output) = 2

\* C7 as stated: without --generate every printed tag is the tag as fetched,
\* and tags change only by integrity and crossorigin under --generate.
C7_Original ==
  \A k \in PrintedTags :
    LET was == RefHtml(output[k].ref)
    IN /\ ~args.generate => output[k].tag = was
       /\ \A a \in DOMAIN was.attrs \ {"integrity", "crossorigin"} :
            output[k].tag.attrs[a] = was.attrs[a]

\* C7 amended: without --generate a printed tag is the fetched tag except that
\* its resolved attribute, when it started with '//', carries the page scheme
\* and ':' in front; integrity and crossorigin change only under --generate.
C7_Unmutated ==
  /\ ~args.generate =>
       \A k \in PrintedTags :
         LET ref == remote_resource_tags[output[k].ref]
             was == html[ref.tag]
         IN /\ output[k].tag.name = was.name
            /\ DOMAIN output[k].tag.attrs = DOMAIN was.attrs
            /\ \A a \in DOMAIN was.attrs :
                 output[k].tag.attrs[a] =
                   IF a = ref.attr THEN Expected(was.attrs[a]) ELSE was.attrs[a]
  /\ \A t \in 1..Len(soup) :
       /\ \A a \in DOMAIN html[t].attrs :
            \/ soup[t].attrs[a] = html[t].attrs[a]
            \/ a = pick_attribute(html[t], 1, "") /\ t \in Selected
                 /\ soup[t].attrs[a] = Expected(html[t].attrs[a])
            \/ args.generate /\ a \in {"integrity", "crossorigin"}
       /\ DOMAIN soup[t].attrs # DOMAIN html[t].attrs => args.generate

\* without --generate a protocol-relative tag was printed with its value rewritten
C7_Witness ==
  /\ ~args.generate
  /\ \E k \in PrintedTags :
       /\ RefHtml(output[k].ref).attrs[remote_resource_tags[output[k].ref].attr] = RelCdn
       /\ output[k].tag # RefHtml(output[k].ref)

\* C8 as stated: a failed fetch ends the run with nothing printed, and no fetch
\* follows a failed one.
C8_Original ==
  /\ \A k \in 1..(Len(fetched) - 1) : fetched[k].ok
  /\ pc = "error" => output = <<>>

\* C8 amended: a failed fetch ends the run, no fetch follows it and nothing is
\* printed after it; a failed page fetch leaves no output, and when the hash
\* fetch of the k-th reference fails the tags of references 1..k-1 have been
\* printed before it.
C8_Fatal ==
  /\ \A k \in 1..(Len(fetched) - 1) : fetched[k].ok
  /\ (pc = "error") <=> (Len(fetched) >= 1 /\ ~fetched[Len(fetched)].ok)
  /\ pc = "error" =>
       IF Len(fetched) = 1 THEN output = <<>>
       ELSE /\ Len(fetched) = idx + 1
            /\ Len(output) = idx - 1
            /\ PrintedTags = 1..(idx - 1)
  /\ \A k \in 2..Len(fetched) : fetched[k].url = RefValue(k - 1)

\* the hash fetch of the second reference failed after the first tag was printed
C8_Witness ==
  /\ pc = "error"
  /\ Len(fetched) = 3
  /\ Len(output) = 1

\* C9: under --generate every printed tag has integrity 'sha384-' plus the
\* digest of the body fetched from its own resolved URL and crossorigin
\* 'anonymous', replacing what it had; equal bodies give equal integrity.
C9_Integrity ==
  args.generate =>
    /\ \A k \in PrintedTags :
         /\ fetched[k + 1].ok
         /\ fetched[k + 1].url = RefValue(output[k].ref)
         /\ output[k].tag.attrs["integrity"] =
              Sha384Prefix \o b64_sha384(fetched[k + 1].body)
         /\ output[k].tag.attrs["crossorigin"] = Anonymous
    /\ \A k, j \in PrintedTags :
         fetched[k + 1].body = fetched[j + 1].body =>
           output[k].tag.attrs["integrity"] = output[j].tag.attrs["integrity"]

\* under --all --generate a tag that carried integrity and crossorigin was
\* printed with both replaced
C9_Witness ==
  /\ args.generate
  /\ \E k \in PrintedTags :
       /\ "integrity" \in DOMAIN RefHtml(output[k].ref).attrs
       /\ RefHtml(output[k].ref).attrs["integrity"] = OldIntegrity
       /\ output[k].tag.attrs["crossorigin"] = Anonymous

\* C10: the resolved attribute of a selected element is the one it was selected
\* by, src for script and href for link, also when it carries both; scheme
\* check and whitelist check use that attribute's value.
C10_SelectingAttribute ==
  Extracted =>
    /\ \A k \in 1..Len(remote_resource_tags) :
         remote_resource_tags[k].attr = SelectingAttr(RefHtml(k))
    /\ \A t \in Selected :
         LET p == urlparse(Expected(html[t].attrs[SelectingAttr(html[t])]))
         IN (t \in ReturnedTags(remote_resource_tags))
            <=> (p.scheme \in {Http, Https}
                 /\ p.netloc \notin Range(whitelisted_hosts))
====
